---- MODULE Spec2Model ----
(***************************************************************************)
(* Model of game/engine/gfx/_gm.c: the rectangle-set algebra (mk_disjoint, *)
(* with its helpers quicksort, find and set_add) and the frame compositor  *)
(* (fastdraw) built on it.                                                 *)
(*                                                                         *)
(* A rectangle is a tuple <<x, y, w, h>> (pygame.Rect's x, y, w, h).  C    *)
(* arrays are functions over 0..n-1, Python lists are sequences.           *)
(***************************************************************************)
EXTENDS Integers, Sequences, FiniteSets, TLC

VARIABLES
    mode,       \* "alg" while exercising mk_disjoint alone, "frame" for fastdraw
    added,      \* mk_disjoint: the add argument
    removed,    \* mk_disjoint: the rm argument
    out,        \* mk_disjoint(added, removed), or <<>> before the call
    out2,       \* mk_disjoint(out, []), or <<>> before the call
    outStrip,   \* mk_disjoint of the arguments without their degenerate members
    apc,        \* position of the algebra driver: "start", "once", "twice"
    gs,         \* fastdraw: graphics[i][j], the drawables of each layer
    gs0,        \* the drawables as they were when fastdraw was called
    initial_dirty,  \* the dirty argument as passed by the caller
    dirty,      \* the dirty list (the caller's list, appended to in place)
    pc,         \* position in fastdraw
    pos,        \* collect and draw passes: position in the pass's slots
    li,         \* cull pass: the layer index i (1-based)
    dirty_opaque,    \* opaque regions accumulated over the layers processed
    opaque_by_layer, \* l_dirty_opaque of each layer processed
    dirty_by_layer,  \* dirty_by_layer[i] of each layer processed
    rtn,        \* "running", "NULL" (error raised), "False" or <<"list", rects>>
    log         \* the callbacks invoked so far, in order

algvars == <<added, removed, out, out2, outStrip, apc>>

framevars == <<gs, gs0, initial_dirty, dirty, pc, pos, li, dirty_opaque,
               opaque_by_layer, dirty_by_layer, rtn, log>>

vars == <<mode, algvars, framevars>>

----------------------------------------------------------------------------
(* Bounds of the algebra inputs *)

MaxX == 1          \* x in 0..MaxX
MaxY == 0          \* y in 0..MaxY
MaxW == 2          \* w in -1..MaxW (negative and zero widths are degenerate)
MaxH == 2          \* h in 0..MaxH
MaxAdded == 2      \* length of the add argument
MaxRemoved == 1    \* length of the rm argument

----------------------------------------------------------------------------
(* Rectangles *)

RX(r) == r[1]
RY(r) == r[2]
RW(r) == r[3]
RH(r) == r[4]

NonDegenerate(r) == RW(r) > 0 /\ RH(r) > 0

\* The unit cells <<px, py>> = [px, px+1) x [py, py+1) a rectangle covers.
Points(r) ==
    IF NonDegenerate(r)
    THEN {<<px, py>> \in (RX(r)..(RX(r) + RW(r) - 1)) \X (RY(r)..(RY(r) + RH(r) - 1)) : TRUE}
    ELSE {}

Cover(rs) == UNION {Points(rs[n]) : n \in 1..Len(rs)}

----------------------------------------------------------------------------
(* quicksort: the iterative quicksort with explicit beg/end stacks.  The    *)
(* smaller partition is always taken first, so the stack level i stays     *)
(* below log2(elements) + 1, far under the MAX_QSORT_LEVELS slots of the   *)
(* beg and end arrays; the stacks are modelled as growing functions.       *)

\* inner loop "while (arr[R] >= piv && L < R) R--"
RECURSIVE ScanDown(_, _, _, _)
ScanDown(arr, piv, L, R) ==
    IF arr[R] >= piv /\ L < R THEN ScanDown(arr, piv, L, R - 1) ELSE R

\* inner loop "while (arr[L] <= piv && L < R) L++"
RECURSIVE ScanUp(_, _, _, _)
ScanUp(arr, piv, L, R) ==
    IF arr[L] <= piv /\ L < R THEN ScanUp(arr, piv, L + 1, R) ELSE L

\* loop "while (L < R) { ... }" of one partition; yields <<arr, L>>
RECURSIVE Partition(_, _, _, _)
Partition(arr, piv, L, R) ==
    IF L < R
    THEN LET R1 == ScanDown(arr, piv, L, R)
             a1 == IF L < R1 THEN [arr EXCEPT ![L] = arr[R1]] ELSE arr
             L1 == IF L < R1 THEN L + 1 ELSE L
             L2 == ScanUp(a1, piv, L1, R1)
             a2 == IF L2 < R1 THEN [a1 EXCEPT ![R1] = a1[L2]] ELSE a1
             R2 == IF L2 < R1 THEN R1 - 1 ELSE R1
         IN  Partition(a2, piv, L2, R2)
    ELSE <<arr, L>>

\* loop "while (i >= 0) { ... }"; beg and end are the explicit stacks
RECURSIVE QuicksortLoop(_, _, _, _)
QuicksortLoop(arr, beg, end, i) ==
    IF i < 0 THEN arr
    ELSE LET L == beg[i]
             R == end[i] - 1
         IN  IF L < R
             THEN LET p  == Partition(arr, arr[L], L, R)
                      Lp == p[2]
                      a  == [p[1] EXCEPT ![Lp] = arr[L]]
                      b1 == (i + 1 :> (Lp + 1)) @@ beg
                      e1 == (i + 1 :> end[i]) @@ (i :> Lp) @@ end
                      sw == e1[i + 1] - b1[i + 1] > e1[i] - b1[i]
                      b2 == IF sw THEN (i + 1 :> b1[i]) @@ (i :> b1[i + 1]) @@ b1 ELSE b1
                      e2 == IF sw THEN (i + 1 :> e1[i]) @@ (i :> e1[i + 1]) @@ e1 ELSE e1
                  IN  QuicksortLoop(a, b2, e2, i + 1)
             ELSE QuicksortLoop(arr, beg, end, i - 1)

quicksort(arr, elements) == QuicksortLoop(arr, (0 :> 0), (0 :> elements), 0)

----------------------------------------------------------------------------
(* find and set_add *)

\* first index >= i holding x, or -1
RECURSIVE find(_, _, _, _)
find(arr, n, x, i) ==
    IF i < n
    THEN IF arr[i] = x THEN i ELSE find(arr, n, x, i + 1)
    ELSE -1

\* set_add on the pair <<arr, n>>: arr[n] = x and n + 1 unless x is present
set_add(an, x) ==
    IF \E i \in 0..(an[2] - 1) : an[1][i] = x
    THEN an
    ELSE <<(an[2] :> x) @@ an[1], an[2] + 1>>

----------------------------------------------------------------------------
(* mk_disjoint *)

\* lines 80-88: the edge arrays <<edges[0], n_edges[0], edges[1], n_edges[1]>>
\* after the rectangles rs[1..n] have been visited, starting from e
RECURSIVE CollectEdges(_, _, _)
CollectEdges(rs, n, e) ==
    IF n > Len(rs) THEN e
    ELSE LET r  == rs[n]
             ex == set_add(set_add(<<e[1], e[2]>>, RX(r)), RX(r) + RW(r))
             ey == set_add(set_add(<<e[3], e[4]>>, RY(r)), RY(r) + RH(r))
         IN  CollectEdges(rs, n + 1, <<ex[1], ex[2], ey[1], ey[2]>>)

MarksCells(r) == NonDegenerate(r)

\* lines 101-112: does r, with rows row0..row1-1 and columns col0..col1-1,
\* mark cell (row k, column l)?
InSpan(row0, row1, col0, col1, k, l) ==
    /\ row0 <= k /\ k < row1
    /\ col0 <= l /\ l < col1

\* line 102, 104: the index of the far edge, searched from the near edge
FarEdge(arr, n, x, near) == find(arr, n, x, near)

\* lines 97-115: does some rectangle of rs mark cell (row k, column l)?
\* E = <<edges[0], n_edges[0], edges[1], n_edges[1]>>, sorted
Marks(rs, E, k, l) ==
    \E n \in 1..Len(rs) :
        /\ MarksCells(rs[n])
        /\ InSpan(find(E[3], E[4], RY(rs[n]), 0),
                  FarEdge(E[3], E[4], RY(rs[n]) + RH(rs[n]), find(E[3], E[4], RY(rs[n]), 0)),
                  find(E[1], E[2], RX(rs[n]), 0),
                  FarEdge(E[1], E[2], RX(rs[n]) + RW(rs[n]), find(E[1], E[2], RX(rs[n]), 0)),
                  k, l)

\* lines 94-115: the grid, 2 if add, 1 if rm
Grid(add, rm, E) ==
    [c \in 0..((E[2] - 1) * (E[4] - 1) - 1) |->
        IF E[2] - 1 <= 0 THEN 0   \* no rectangle at all: one cell, left at 0
        ELSE (IF Marks(add, E, c \div (E[2] - 1), c % (E[2] - 1)) THEN 2 ELSE 0)
           + (IF Marks(rm, E, c \div (E[2] - 1), c % (E[2] - 1)) THEN 1 ELSE 0)]

\* a run whose height is the bottom edge of its row, not the row's height
RunRect_BottomAsHeight(E, r_i, r_left, right) ==
    <<r_left, E[3][r_i], right - r_left, E[3][r_i + 1]>>

\* lines 126-129, 142-145, 153-156: the rectangle emitted when a run that
\* started at r_left on row r_i ends at x coordinate right
RunRect(E, r_i, r_left, right) ==
    <<r_left, E[3][r_i], right - r_left, E[3][r_i + 1] - E[3][r_i]>>

\* a cell test that forgets the rm bit
AddOnly_IgnoringRm(v) == v >= 2

\* line 133: "grid[...] == 2", add and not rm
AddOnly(v) == v = 2

\* lines 123-132: "if (in_rect && i != r_i)", on a different row: rect ended
\* st = <<in_rect, r_i, r_left, rs>>
RowStep(E, i, st) ==
    IF st[1] /\ i # st[2]
    THEN <<FALSE, st[2], st[3], Append(st[4], RunRect(E, st[2], st[3], E[1][E[2] - 1]))>>
    ELSE st

\* lines 133-148: a cell of value v at row i, column j starts, continues or
\* ends a run
CellStep(E, v, i, j, st) ==
    IF AddOnly(v)
    THEN IF ~st[1] THEN <<TRUE, i, E[1][j], st[4]>> ELSE st
    ELSE IF st[1]
         THEN <<FALSE, st[2], st[3], Append(st[4], RunRect(E, st[2], st[3], E[1][j]))>>
         ELSE st

\* lines 121-150: the scan over cells c = i * (n_edges[0] - 1) + j in
\* row-major order
RECURSIVE ScanGrid(_, _, _, _)
ScanGrid(grid, E, c, st) ==
    IF E[2] - 1 <= 0 \/ E[4] - 1 <= 0 \/ c >= (E[2] - 1) * (E[4] - 1) THEN st
    ELSE ScanGrid(grid, E, c + 1,
                  CellStep(E, grid[c], c \div (E[2] - 1), c % (E[2] - 1),
                           RowStep(E, c \div (E[2] - 1), st)))

\* lines 151-159: last rect ended
LastRect(E, st) ==
    IF st[1]
    THEN Append(st[4], RunRect(E, st[2], st[3], E[1][E[2] - 1]))
    ELSE st[4]

\* lines 89-91: sort edges
SortedEdges(e) == <<quicksort(e[1], e[2]), e[2], quicksort(e[3], e[4]), e[4]>>

\* lines 92-159: the grid over the sorted edges E and its subrects
Subrects(add, rm, E) ==
    LastRect(E, ScanGrid(Grid(add, rm, E), E, 0, <<FALSE, 0, 0, <<>>>>))

mk_disjoint(add, rm) ==
    Subrects(add, rm,
             SortedEdges(CollectEdges(rm, 1, CollectEdges(add, 1, <<<<>>, 0, <<>>, 0>>))))

----------------------------------------------------------------------------
(* fastdraw *)

MaxLayers == 2     \* number of layers
MaxGraphics == 2   \* number of drawables over all layers

\* pygame.Rect.clip as called on lines 236, 280 and 324: A.clip(B) is the
\* intersection, or <<A.x, A.y, 0, 0>> when the two do not intersect
Clip(A, B) ==
    LET xl == IF RX(A) >= RX(B) /\ RX(A) < RX(B) + RW(B) THEN <<TRUE, RX(A)>>
              ELSE IF RX(B) >= RX(A) /\ RX(B) < RX(A) + RW(A) THEN <<TRUE, RX(B)>>
              ELSE <<FALSE, 0>>
        xr == IF RX(A) + RW(A) > RX(B) /\ RX(A) + RW(A) <= RX(B) + RW(B)
              THEN <<TRUE, RX(A) + RW(A)>>
              ELSE IF RX(B) + RW(B) > RX(A) /\ RX(B) + RW(B) <= RX(A) + RW(A)
              THEN <<TRUE, RX(B) + RW(B)>>
              ELSE <<FALSE, 0>>
        yt == IF RY(A) >= RY(B) /\ RY(A) < RY(B) + RH(B) THEN <<TRUE, RY(A)>>
              ELSE IF RY(B) >= RY(A) /\ RY(B) < RY(A) + RH(A) THEN <<TRUE, RY(B)>>
              ELSE <<FALSE, 0>>
        yb == IF RY(A) + RH(A) > RY(B) /\ RY(A) + RH(A) <= RY(B) + RH(B)
              THEN <<TRUE, RY(A) + RH(A)>>
              ELSE IF RY(B) + RH(B) > RY(A) /\ RY(B) + RH(B) <= RY(A) + RH(A)
              THEN <<TRUE, RY(B) + RH(B)>>
              ELSE <<FALSE, 0>>
    IN  IF xl[1] /\ xr[1] /\ yt[1] /\ yb[1]
        THEN <<xl[2], yt[2], xr[2] - xl[2], yb[2] - yt[2]>>
        ELSE <<RX(A), RY(A), 0, 0>>

NLayers == Len(gs)

\* the drawables <<i, j>> of the layers in the given order, j ascending
RECURSIVE SlotsOf(_)
SlotsOf(order) ==
    IF order = <<>> THEN <<>>
    ELSE [j \in 1..Len(gs[Head(order)]) |-> <<Head(order), j>>] \o SlotsOf(Tail(order))

\* line 207: "for (i = 0; i < n_layers; i++)"
CollectOrder == [n \in 1..NLayers |-> n]

\* a draw pass that walks the layers the way the other passes do
DrawOrder_Ascending == [n \in 1..NLayers |-> n]

\* line 309: "for (i = n_layers - 1; i >= 0; i--)"
DrawOrder == [n \in 1..NLayers |-> NLayers + 1 - n]

CollectSlots == SlotsOf(CollectOrder)
DrawSlots == SlotsOf(DrawOrder)

NULL == [kind |-> "NULL", rects |-> <<>>]

\* a visibility test with the comparison inverted
LocalDirty_Inverted(g) ==
    IF g.was_visible = g.visible
    THEN <<IF g.visible THEN g.rect ELSE g.last_rect>>
    ELSE g.dirty

\* lines 214-227: the dirty list of g, replaced on a visibility change by
\* the last rect (now hidden) or the current rect (now shown)
LocalDirty(g) ==
    IF g.was_visible # g.visible
    THEN <<IF g.visible THEN g.rect ELSE g.last_rect>>
    ELSE g.dirty

\* line 238: is the clip r_o appended to dirty?
Appended(r_o) == TRUE

\* lines 233-240: the clips of ds against g_rect that are appended to dirty
ClipAll(ds, g_rect) ==
    SelectSeq([l \in 1..Len(ds) |-> Clip(ds[l], g_rect)], Appended)

\* lines 228-243: what the drawable g appends to dirty, last state first
Collected(g) ==
    (IF g.was_visible THEN ClipAll(LocalDirty(g), g.last_rect) ELSE <<>>)
    \o (IF g.visible THEN ClipAll(LocalDirty(g), g.rect) ELSE <<>>)

\* lines 207-251, one drawable: _pre_draw is called and may raise; otherwise
\* the drawable's rects are appended to dirty and was_visible is updated
PreDraw ==
    /\ pc = "collect"
    /\ pos <= Len(CollectSlots)
    /\ LET i == CollectSlots[pos][1]
           j == CollectSlots[pos][2]
           g == gs[i][j]
       IN  \E raised \in BOOLEAN :
             /\ log' = Append(log, <<"_pre_draw", i, j>>)
             /\ IF raised
                THEN /\ rtn' = NULL
                     /\ pc' = "done"
                     /\ UNCHANGED <<gs, dirty, pos>>
                ELSE /\ dirty' = dirty \o Collected(g)
                     /\ gs' = [gs EXCEPT ![i][j].was_visible = g.visible]
                     /\ pos' = pos + 1
                     /\ UNCHANGED <<pc, rtn>>
    /\ UNCHANGED <<mode, algvars, gs0, initial_dirty, li, dirty_opaque,
                   opaque_by_layer, dirty_by_layer>>

\* line 257: "if (PyList_GET_SIZE(dirty) == 0) goto end"
NothingDirty(d) == Len(d) = 0

\* lines 253-263: only have something to do if dirty is non-empty
CheckDirty ==
    /\ pc = "collect"
    /\ pos > Len(CollectSlots)
    /\ IF NothingDirty(dirty)
       THEN /\ rtn' = [kind |-> "False", rects |-> <<>>]
            /\ pc' = "done"
       ELSE /\ pc' = IF NLayers = 0 THEN "draw" ELSE "cull"
            /\ UNCHANGED rtn
    /\ pos' = 1
    /\ UNCHANGED <<mode, algvars, gs, gs0, initial_dirty, dirty, li,
                   dirty_opaque, opaque_by_layer, dirty_by_layer, log>>

\* line 272: r_good before any drawable of the layer has been asked
InitiallyGood == TRUE

\* lines 273-293: the chain over the drawables k.. of a layer with running
\* clip r; yields <<r_good, r, number of _opaque_in calls made>>
RECURSIVE Chain(_, _, _, _)
Chain(layer, r, k, r_good) ==
    IF k > Len(layer) THEN <<r_good, r, k - 1>>
    ELSE LET c    == Clip(r, layer[k].rect)
             good == NonDegenerate(c) /\ layer[k].opaque
         IN  IF ~good THEN <<FALSE, c, k>> ELSE Chain(layer, c, k + 1, good)

\* lines 269-296 for the dirty rects j.. of layer i;
\* acc = <<l_dirty_opaque, the _opaque_in calls made>>
RECURSIVE CullFrom(_, _, _)
CullFrom(i, j, acc) ==
    IF j > Len(dirty) THEN acc
    ELSE LET c  == Chain(gs[i], dirty[j], 1, InitiallyGood)
             qs == [k \in 1..c[3] |-> <<"_opaque_in", i, k>>]
         IN  CullFrom(i, j + 1,
                      <<IF c[1] THEN Append(acc[1], c[2]) ELSE acc[1], acc[2] \o qs>>)

\* a call that passes an empty rm list
Occluders_None(acc) == <<>>

\* line 299: the rm argument of the layer's mk_disjoint call
Occluders(acc) == acc

\* lines 264-305, one layer: the layer's opaque regions are collected
\* (an _opaque_in call may raise), dirty_by_layer[i] is computed from the
\* regions of the layers before it, and the layer's regions are added
CullLayer ==
    /\ pc = "cull"
    /\ li <= NLayers
    /\ LET run == CullFrom(li, 1, <<<<>>, <<>>>>) IN
       \E f \in 0..Len(run[2]) :
         IF f > 0
         THEN /\ log' = log \o SubSeq(run[2], 1, f)
              /\ rtn' = NULL
              /\ pc' = "done"
              /\ UNCHANGED <<li, dirty_opaque, opaque_by_layer, dirty_by_layer>>
         ELSE /\ log' = log \o run[2]
              /\ dirty_by_layer' =
                     Append(dirty_by_layer, mk_disjoint(dirty, Occluders(dirty_opaque)))
              /\ opaque_by_layer' = Append(opaque_by_layer, run[1])
              /\ dirty_opaque' = dirty_opaque \o run[1]
              /\ li' = li + 1
              /\ pc' = IF li = NLayers THEN "draw" ELSE "cull"
              /\ UNCHANGED rtn
    /\ UNCHANGED <<mode, algvars, gs, gs0, initial_dirty, dirty, pos>>

\* lines 320-328: the non-empty clips of g's rect against the layer's rects
DrawIn(g, rs) ==
    SelectSeq([k \in 1..Len(rs) |-> Clip(g.rect, rs[k])], NonDegenerate)

\* lines 309-341, one drawable: a visible drawable with something to draw
\* has _draw called, which may raise; then its _dirty list is cleared
DrawStep ==
    /\ pc = "draw"
    /\ pos <= Len(DrawSlots)
    /\ LET i == DrawSlots[pos][1]
           j == DrawSlots[pos][2]
           g == gs[i][j]
           called == g.visible /\ Len(DrawIn(g, dirty_by_layer[i])) > 0
       IN  \E raised \in (IF called THEN BOOLEAN ELSE {FALSE}) :
             /\ log' = IF called THEN Append(log, <<"_draw", i, j>>) ELSE log
             /\ IF raised
                THEN /\ rtn' = NULL
                     /\ pc' = "done"
                     /\ UNCHANGED <<gs, pos>>
                ELSE /\ gs' = [gs EXCEPT ![i][j].dirty = <<>>]
                     /\ pos' = pos + 1
                     /\ UNCHANGED <<pc, rtn>>
    /\ UNCHANGED <<mode, algvars, gs0, initial_dirty, dirty, li, dirty_opaque,
                   opaque_by_layer, dirty_by_layer>>

RECURSIVE Concat(_)
Concat(ss) == IF ss = <<>> THEN <<>> ELSE Head(ss) \o Concat(Tail(ss))

\* lines 343-374: add up the layers' rects and make them disjoint
Finish ==
    /\ pc = "draw"
    /\ pos > Len(DrawSlots)
    /\ rtn' = [kind |-> "list", rects |-> mk_disjoint(Concat(dirty_by_layer), <<>>)]
    /\ pc' = "done"
    /\ UNCHANGED <<mode, algvars, gs, gs0, initial_dirty, dirty, pos, li,
                   dirty_opaque, opaque_by_layer, dirty_by_layer, log>>

----------------------------------------------------------------------------
(* Driver of fastdraw: one call on a bounded scene *)

SeqsUpTo(S, n) == UNION {[1..m -> S] : m \in 0..n}

Left == <<0, 0, 1, 1>>
Right == <<1, 0, 1, 1>>
Both == <<0, 0, 2, 1>>

\* a drawable that stays put over the whole area with nothing to report,
\* and one that has moved from the right to the left half and reports the
\* half it left
Geometries ==
    { [rect |-> Both, last_rect |-> Both, dirty |-> <<>>],
      [rect |-> Left, last_rect |-> Right, dirty |-> <<Right>>] }

\* opaque: the answer of the drawable's _opaque_in
Drawables ==
    { [visible |-> v, was_visible |-> w, opaque |-> o,
       rect |-> ge.rect, last_rect |-> ge.last_rect, dirty |-> ge.dirty] :
      v \in BOOLEAN, w \in BOOLEAN, o \in BOOLEAN, ge \in Geometries }

InitialDirties == {<<>>, <<Both>>}

\* the ways to lay a list of drawables out over n layers, in order
Split(flat, n) ==
    { [m \in 1..n |-> SubSeq(flat, cut[m - 1] + 1, cut[m])] :
      cut \in {c \in [0..n -> 0..Len(flat)] :
                  /\ c[0] = 0
                  /\ c[n] = Len(flat)
                  /\ \A m \in 1..n : c[m - 1] <= c[m]} }

Scenes ==
    UNION { Split(flat, n) : flat \in SeqsUpTo(Drawables, MaxGraphics), n \in 0..MaxLayers }

FrameInit ==
    /\ mode = "frame"
    /\ gs \in Scenes
    /\ gs0 = gs
    /\ initial_dirty \in InitialDirties
    /\ dirty = initial_dirty
    /\ pc = "collect"
    /\ pos = 1
    /\ li = 1
    /\ dirty_opaque = <<>>
    /\ opaque_by_layer = <<>>
    /\ dirty_by_layer = <<>>
    /\ rtn = [kind |-> "running", rects |-> <<>>]
    /\ log = <<>>
    /\ added = <<>> /\ removed = <<>> /\ out = <<>> /\ out2 = <<>>
    /\ outStrip = <<>> /\ apc = "idle"

FrameNext == PreDraw \/ CheckDirty \/ CullLayer \/ DrawStep \/ Finish

SpecFrame == FrameInit /\ [][FrameNext]_vars

\* the compositor's variables while only the algebra is exercised
FrameIdle ==
    /\ gs = <<>> /\ gs0 = <<>> /\ initial_dirty = <<>> /\ dirty = <<>>
    /\ pc = "idle" /\ pos = 1 /\ li = 1
    /\ dirty_opaque = <<>> /\ opaque_by_layer = <<>> /\ dirty_by_layer = <<>>
    /\ rtn = [kind |-> "running", rects |-> <<>>]
    /\ log = <<>>

----------------------------------------------------------------------------
(* Driver of the algebra: inputs drawn from bounded sets *)

RectPool ==
    {<<x, y, w, h>> \in (0..MaxX) \X (0..MaxY) \X ((0 - 1)..MaxW) \X (0..MaxH) : TRUE}

AlgInit ==
    /\ mode = "alg"
    /\ added \in SeqsUpTo(RectPool, MaxAdded)
    /\ removed \in SeqsUpTo(RectPool, MaxRemoved)
    /\ out = <<>>
    /\ out2 = <<>>
    /\ outStrip = <<>>
    /\ apc = "start"
    /\ FrameIdle

\* disjoint_difference(A, B), and the same on the non-degenerate members
Difference ==
    /\ apc = "start"
    /\ out' = mk_disjoint(added, removed)
    /\ outStrip' = mk_disjoint(SelectSeq(added, NonDegenerate),
                               SelectSeq(removed, NonDegenerate))
    /\ apc' = "once"
    /\ UNCHANGED <<mode, added, removed, out2, framevars>>

\* disjoint_difference(disjoint_difference(A, B), [])
Again ==
    /\ apc = "once"
    /\ out2' = mk_disjoint(out, <<>>)
    /\ apc' = "twice"
    /\ UNCHANGED <<mode, added, removed, out, outStrip, framevars>>

AlgNext == Difference \/ Again

SpecAlg == AlgInit /\ [][AlgNext]_vars

----------------------------------------------------------------------------
(* Properties of the algebra *)

Overlap(r, q) == Points(r) \cap Points(q) # {}

PairwiseDisjoint(rs) ==
    \A m, n \in 1..Len(rs) : m # n => ~Overlap(rs[m], rs[n])

AllNonDegenerate(rs) == \A n \in 1..Len(rs) : NonDegenerate(rs[n])

\* C1: disjoint_difference(A, B) returns non-degenerate, pairwise disjoint
\* rectangles whose union is exactly the points covered by a non-degenerate
\* rectangle of A and by no non-degenerate rectangle of B.
C1_DisjointExactCover ==
    apc # "start" =>
        /\ AllNonDegenerate(out)
        /\ PairwiseDisjoint(out)
        /\ Cover(out) = Cover(added) \ Cover(removed)

\* the call has acted on overlapping added rectangles, a degenerate member
\* and a removed rectangle that cuts into them, and returned something
C1_Witness ==
    /\ apc = "once"
    /\ Len(added) = 2 /\ Overlap(added[1], added[2]) /\ added[1] # added[2]
    /\ Len(removed) = 1 /\ Cover(removed) \cap Cover(added) # {}
    /\ Len(out) >= 2

\* C6: disjoint_difference(disjoint_difference(A, B), []) returns exactly
\* the rectangles of disjoint_difference(A, B), in the same order.
C6_Idempotent == apc = "twice" => out2 = out

C6_Witness == apc = "twice" /\ Len(out) >= 3 /\ removed # <<>>

\* C7: the result is identical to the result on the inputs with every
\* degenerate rectangle removed first.
C7_DegenerateIgnored == apc # "start" => out = outStrip

----------------------------------------------------------------------------
(* Properties of fastdraw *)

Inside(r, q) == Points(r) \subseteq Points(q)

Layers == 1..NLayers

IsOp(e, op) == e[1] = op

\* the layer's drawables all contain r and all report _opaque_in true
AllOpaqueOver(i, r) ==
    \A k \in 1..Len(gs[i]) : Inside(r, gs[i][k].rect) /\ gs[i][k].opaque

\* C2: a non-degenerate dirty rectangle inside the rect of a drawable of
\* layer i that reports _opaque_in true overlaps no rectangle of
\* dirty_by_layer[j], j > i, whatever other drawables layer i contains.
C2_OpaqueOcclusionAnyDrawable ==
    \A i \in Layers : \A k \in 1..Len(gs[i]) : \A n \in 1..Len(dirty) :
      \A j \in (i + 1)..Len(dirty_by_layer) :
        (/\ pc # "collect"
         /\ NonDegenerate(dirty[n])
         /\ Inside(dirty[n], gs[i][k].rect)
         /\ gs[i][k].opaque)
        => \A m \in 1..Len(dirty_by_layer[j]) : ~Overlap(dirty_by_layer[j][m], dirty[n])

\* C2 as amended: the same when layer i holds at least one drawable and
\* every drawable of layer i contains the rectangle and reports true.
C2_OpaqueOcclusionWholeLayer ==
    \A i \in Layers : \A n \in 1..Len(dirty) :
      \A j \in (i + 1)..Len(dirty_by_layer) :
        (/\ pc # "collect"
         /\ NonDegenerate(dirty[n])
         /\ Len(gs[i]) > 0
         /\ AllOpaqueOver(i, dirty[n]))
        => \A m \in 1..Len(dirty_by_layer[j]) : ~Overlap(dirty_by_layer[j][m], dirty[n])

\* a layer of two drawables hides a dirty rectangle from the next layer,
\* which still has something else to redraw
C2_Witness ==
    /\ pc = "done" /\ rtn.kind = "list"
    /\ \E i \in Layers : \E n \in 1..Len(dirty) :
         /\ NonDegenerate(dirty[n])
         /\ Len(gs[i]) = 2
         /\ AllOpaqueOver(i, dirty[n])
         /\ i + 1 <= Len(dirty_by_layer)
         /\ dirty_by_layer[i + 1] # <<>>

\* the drawables as they were at the call
AllGraphics == UNION {{gs0[i][j] : j \in 1..Len(gs0[i])} : i \in 1..Len(gs0)}

NoDraw == \A n \in 1..Len(log) : ~IsOp(log[n], "_draw")

Quiet == initial_dirty = <<>> /\ \A g \in AllGraphics : g.dirty = <<>>

\* C3: with an empty initial_dirty and every local dirty list empty the
\* call returns False and draws nothing, whatever the visibility flags.
C3_QuietReturnsFalse ==
    Quiet => /\ NoDraw
             /\ (pc = "done" /\ rtn.kind # "NULL" => rtn.kind = "False")

\* C3 as amended: the same when no drawable's visibility has changed
\* (was_visible = visible).
C3_QuietUnchangedReturnsFalse ==
    (Quiet /\ \A g \in AllGraphics : g.was_visible = g.visible)
    => /\ NoDraw
       /\ (pc = "done" /\ rtn.kind # "NULL" => rtn.kind = "False")

C3_Witness ==
    /\ pc = "done" /\ rtn.kind = "False"
    /\ Quiet
    /\ \A g \in AllGraphics : g.was_visible = g.visible
    /\ \E g, h \in AllGraphics : g.visible /\ ~h.visible

\* C4: when a callback raises, no drawable's local dirty list has been
\* cleared and no drawable's was_visible has been changed.
C4_FailureLeavesDirtyState ==
    rtn.kind = "NULL" =>
        \A i \in Layers : \A j \in 1..Len(gs[i]) :
            /\ gs[i][j].dirty = gs0[i][j].dirty
            /\ gs[i][j].was_visible = gs0[i][j].was_visible

\* C5: _opaque_in calls come in non-decreasing layer order and before
\* every _draw call; _draw calls come in non-increasing layer order.
C5_PassOrders ==
    \A a, b \in 1..Len(log) :
        a < b =>
          /\ (IsOp(log[a], "_draw") => ~IsOp(log[b], "_opaque_in"))
          /\ (IsOp(log[a], "_opaque_in") /\ IsOp(log[b], "_opaque_in")
                => log[a][2] <= log[b][2])
          /\ (IsOp(log[a], "_draw") /\ IsOp(log[b], "_draw")
                => log[a][2] >= log[b][2])

\* a finished call that asked and drew drawables in two layers
C5_Witness ==
    /\ pc = "done" /\ rtn.kind = "list"
    /\ \E a, b \in 1..Len(log) :
         IsOp(log[a], "_draw") /\ IsOp(log[b], "_draw") /\ log[a][2] # log[b][2]
    /\ \E a, b \in 1..Len(log) :
         IsOp(log[a], "_opaque_in") /\ IsOp(log[b], "_opaque_in") /\ log[a][2] # log[b][2]

\* C8: every rectangle the collector appends to dirty is non-degenerate.
C8_CollectedNonDegenerate ==
    \A n \in (Len(initial_dirty) + 1)..Len(dirty) : NonDegenerate(dirty[n])

\* the clip of r against the rects of the layer's drawables, in order
RECURSIVE ClipChain(_, _, _)
ClipChain(layer, r, k) ==
    IF k > Len(layer) THEN r ELSE ClipChain(layer, Clip(r, layer[k].rect), k + 1)

\* C9: every rectangle of a layer's opaque list is non-degenerate and is
\* the clip of a dirty rectangle against the layer's drawables, of which
\* there is at least one and all of which reported true.
C9_OpaqueListSound ==
    \A i \in 1..Len(opaque_by_layer) : \A m \in 1..Len(opaque_by_layer[i]) :
        /\ NonDegenerate(opaque_by_layer[i][m])
        /\ Len(gs[i]) > 0
        /\ \A k \in 1..Len(gs[i]) : gs[i][k].opaque
        /\ \E n \in 1..Len(dirty) : opaque_by_layer[i][m] = ClipChain(gs[i], dirty[n], 1)

\* C10: a point of the dirty region is missing from dirty_by_layer[j] only
\* if an earlier layer holds a visible drawable that contains it and
\* reports _opaque_in true.
C10_OcclusionOnlyByVisible ==
    \A j \in 1..Len(dirty_by_layer) :
        \A p \in Cover(dirty) \ Cover(dirty_by_layer[j]) :
            \E i \in 1..(j - 1) : \E k \in 1..Len(gs[i]) :
                /\ gs[i][k].visible
                /\ gs[i][k].opaque
                /\ p \in Points(gs[i][k].rect)

====
